---- MODULE Spec2Model ----
(***************************************************************************)
(* Model of src-tauri/src/lib.rs of ccusage-macos-menubar: the response    *)
(* parser of fetch_session_data, the SESSION_CACHE / IS_REFRESHING state,  *)
(* refresh_session_data, build_menu and the three tasks spawned by run().   *)
(*                                                                         *)
(* Conventions.                                                            *)
(*  - Option<T> is a sequence of length 0 (None) or 1 (Some).              *)
(*  - costUSD is an f64; the model carries costs that are whole eighths of *)
(*    a dollar (exactly representable in binary), so cost n means n/8 USD  *)
(*    and "{:.2}" formatting (exact decimal expansion, ties to even) is    *)
(*    computed exactly by FormatCost.                                       *)
(*  - The program only ever tests last_updated.is_some(); the Instant it   *)
(*    stores is carried as the single value TheInstant.                    *)
(*  - Spec and FairSpec run the tasks, DebugSpec the tasks and the debug-  *)
(*    info task; ParseSpec, FetchSpec, AggSpec and FormatSpec run one      *)
(*    function each (the schema chain, the strategy loop, the Aggregator   *)
(*    of the specification, the naming of a block's models) on inputs      *)
(*    drawn by their Init.                                                  *)
(***************************************************************************)
EXTENDS Integers, Sequences, FiniteSets, TLC

(***************************************************************************)
(* Bounds of the model.                                                    *)
(***************************************************************************)
\* Number of "Refresh" click tasks that may be alive at the same time.
MaxManual == 1

(***************************************************************************)
(* Program constants.                                                       *)
(***************************************************************************)
NumStrategies == 5

None == <<>>
Some(x) == <<x>>

(***************************************************************************)
(* Data: model identifiers, dates, blocks and daily entries that may occur *)
(* in the CLI's output.                                                     *)
(***************************************************************************)
\* Model identifiers, listed in the byte order Vec<String>::sort() gives.
ModelIds == <<"claude-3-haiku-20240307", "gpt-5", "gpt-5-codex">>

ModelRank(m) == CHOOSE i \in 1..Len(ModelIds) : ModelIds[i] = m

RECURSIVE SortModels(_)
SortModels(S) ==
    IF S = {} THEN <<>>
    ELSE LET m == CHOOSE x \in S : \A y \in S : ModelRank(x) <= ModelRank(y)
         IN  <<m>> \o SortModels(S \ {m})

\* chrono::Local::now().format("%b %d, %Y"): the dates the parser is probed
\* with, and the date on which the tasks run.
Dates == {"Nov 02, 2026", "Nov 03, 2026"}
RunDate == "Nov 03, 2026"

TokenCounts(i, o, cc, cr) ==
    [input_tokens |-> i, output_tokens |-> o,
     cache_creation_input_tokens |-> cc, cache_read_input_tokens |-> cr]

BlockData(id, st, en, act, tc, cost, models) ==
    [id |-> id, start_time |-> st, end_time |-> en, is_active |-> act,
     token_counts |-> tc, cost_usd |-> cost, models |-> models]

DailyEntry(date, i, c, o, cost, models) ==
    [date |-> date, input_tokens |-> i, cached_input_tokens |-> c,
     output_tokens |-> o, total_tokens |-> i + o, cost_usd |-> cost,
     models |-> models]

\* fn daily_to_block
daily_to_block(entry) ==
    BlockData("daily-" \o entry.date, "", "", TRUE,
              TokenCounts(entry.input_tokens, entry.output_tokens, 0,
                          entry.cached_input_tokens),
              entry.cost_usd, SortModels(entry.models))

\* The all-zero entry fetch_session_data builds when today is not listed.
ZeroEntry(today) == DailyEntry(today, 0, 0, 0, 0, {})

(***************************************************************************)
(* format!("${:.2}", cost): cost is n/8 USD = 125*n thousandths; the       *)
(* thousandths are rounded to cents, an exact tie going to the even cent.  *)
(***************************************************************************)
RoundCents(mills) ==
    LET q == mills \div 10
        r == mills % 10
    IN  IF r < 5 THEN q
        ELSE IF r > 5 THEN q + 1
        ELSE IF q % 2 = 0 THEN q ELSE q + 1

TwoDigits(n) == IF n < 10 THEN "0" \o ToString(n) ELSE ToString(n)

FormatCost(cost) ==
    LET cents == RoundCents(125 * cost)
    IN  "$" \o ToString(cents \div 100) \o "." \o TwoDigits(cents % 100)

(***************************************************************************)
(* The text a CLI invocation writes to stdout.  shape "object" is a JSON   *)
(* object: daily, sessions and blocks are the arrays under those keys      *)
(* (None: key absent or not of the expected element type), self is the     *)
(* BlockData the object's own top-level fields form (None: some BlockData  *)
(* field is missing).  shape "array" is a bare array of block objects,     *)
(* items.  shape "other" is anything no schema accepts (empty output,      *)
(* malformed JSON, a scalar).  serde ignores unknown keys, so an object    *)
(* may carry several of these at once.                                     *)
(***************************************************************************)
Stdout(shape, daily, sessions, blocks, self, items) ==
    [shape |-> shape, daily |-> daily, sessions |-> sessions,
     blocks |-> blocks, self |-> self, items |-> items]

Garbage == Stdout("other", None, None, None, None, <<>>)

\* serde_json::from_str::<DailyResponse>, ::<SessionsResponse>, ...
ParseDailyResponse(s) ==
    IF s.shape = "object" /\ s.daily # None THEN Some(s.daily[1]) ELSE None

ParseSessionsResponse(s) ==
    IF s.shape = "object" /\ s.sessions # None THEN Some(s.sessions[1]) ELSE None

ParseBlocksResponse(s) ==
    IF s.shape = "object" /\ s.blocks # None THEN Some(s.blocks[1]) ELSE None

ParseBlockData(s) ==
    IF s.shape = "object" /\ s.self # None THEN Some(s.self[1]) ELSE None

ParseBlockArray(s) ==
    IF s.shape = "array" THEN Some(s.items) ELSE None

\* iter().find(pred): the element at the least of the indices `hits` where
\* pred holds, as an Option.
FindFirst(list, hits) ==
    IF hits = {} THEN None
    ELSE Some(list[CHOOSE i \in hits : \A j \in hits : i <= j])

\* A lookup that takes the first entry of the list whatever its date.
FindTodayAny(daily, today) ==
    FindFirst(daily, 1..Len(daily))

\* Line 186: response.daily.iter().find(|d| d.date == today)
FindToday(daily, today) ==
    FindFirst(daily, {i \in 1..Len(daily) : daily[i].date = today})

\* A search that yields the last active block instead of the first.
FindActiveLast(list) ==
    LET hits == {i \in 1..Len(list) : list[i].is_active}
    IN  IF hits = {} THEN None
        ELSE Some(list[CHOOSE i \in hits : \A j \in hits : j <= i])

\* Lines 207, 215, 224: into_iter().find(|block| block.is_active)
FindActive(list) ==
    FindFirst(list, {i \in 1..Len(list) : list[i].is_active})

\* What one return statement of fetch_session_data yields.
FetchResult(block, available) ==
    [active_block |-> block, ccusage_available |-> available]

\* A daily response whose list has no entry dated today: the block is None.
DailyResultNoZero(daily, today) ==
    LET entry == FindToday(daily, today)
    IN  IF entry # None THEN FetchResult(Some(daily_to_block(entry[1])), TRUE)
        ELSE FetchResult(None, TRUE)

\* Lines 185-201: today's entry, or the all-zero entry when it is missing.
DailyResult(daily, today) ==
    LET entry == FindToday(daily, today)
    IN  IF entry # None THEN FetchResult(Some(daily_to_block(entry[1])), TRUE)
        ELSE FetchResult(Some(daily_to_block(ZeroEntry(today))), TRUE)

\* Lines 204-208, 212-216, 224-225: the first block with is_active.
ActiveResult(list) == FetchResult(FindActive(list), TRUE)

\* The schema chain with BlocksResponse tried before SessionsResponse.
ParseResponseBlocksFirst(stdout, today) ==
    IF ParseDailyResponse(stdout) # None
      THEN Some(DailyResult(ParseDailyResponse(stdout)[1], today))
    ELSE IF ParseBlocksResponse(stdout) # None
      THEN Some(ActiveResult(ParseBlocksResponse(stdout)[1]))
    ELSE IF ParseSessionsResponse(stdout) # None
      THEN Some(ActiveResult(ParseSessionsResponse(stdout)[1]))
    ELSE IF ParseBlockData(stdout) # None
      THEN Some(FetchResult(ParseBlockData(stdout), TRUE))
    ELSE IF ParseBlockArray(stdout) # None
      THEN Some(ActiveResult(ParseBlockArray(stdout)[1]))
    ELSE None

\* Lines 183-230 of fetch_session_data: the schemas tried on the stdout of a
\* successful invocation; None when none parses (the loop continues).
ParseResponse(stdout, today) ==
    IF ParseDailyResponse(stdout) # None
      THEN Some(DailyResult(ParseDailyResponse(stdout)[1], today))
    ELSE IF ParseSessionsResponse(stdout) # None
      THEN Some(ActiveResult(ParseSessionsResponse(stdout)[1]))
    ELSE IF ParseBlocksResponse(stdout) # None
      THEN Some(ActiveResult(ParseBlocksResponse(stdout)[1]))
    ELSE IF ParseBlockData(stdout) # None
      THEN Some(FetchResult(ParseBlockData(stdout), TRUE))
    ELSE IF ParseBlockArray(stdout) # None
      THEN Some(ActiveResult(ParseBlockArray(stdout)[1]))
    ELSE None

(***************************************************************************)
(* Identifiers as text.  A &str is carried as a TLA+ string; where the     *)
(* program looks inside one (str::contains) the string is taken through    *)
(* its spelling, the sequence of its characters, and Text turns a spelling *)
(* back into the string.                                                    *)
(***************************************************************************)
\* Number of parts an identifier outside the table is put together from.
MaxParts == 2

RECURSIVE Text(_)
Text(chars) == IF chars = <<>> THEN "" ELSE chars[1] \o Text(Tail(chars))

\* The parts: family keywords whole, split and capitalized, and affixes.
Parts ==
    {<<"c", "l", "a", "u", "d", "e", "-">>,
     <<"o", "p", "u", "s">>,
     <<"s", "o", "n", "n", "e", "t">>,
     <<"h", "a", "i", "k", "u">>,
     <<"g", "p", "t", "-", "5">>,
     <<"-", "c", "o", "d", "e", "x">>,
     <<"o", "p">>,
     <<"u", "s">>,
     <<"O", "p", "u", "s">>,
     <<"-", "m", "i", "n", "i">>,
     <<"g", "p", "t", "-", "5", "-", "c", "o", "d", "e", "x">>}

\* The identifiers format_model_name matches exactly (lines 124-129).
KnownSpellings ==
    {<<"c", "l", "a", "u", "d", "e", "-", "o", "p", "u", "s", "-", "4", "-", "2", "0", "2", "5", "0", "5", "1", "4">>,
     <<"c", "l", "a", "u", "d", "e", "-", "s", "o", "n", "n", "e", "t", "-", "4", "-", "2", "0", "2", "5", "0", "5", "1", "4">>,
     <<"c", "l", "a", "u", "d", "e", "-", "3", "-", "5", "-", "s", "o", "n", "n", "e", "t", "-", "2", "0", "2", "4", "1", "0", "2", "2">>,
     <<"c", "l", "a", "u", "d", "e", "-", "3", "-", "h", "a", "i", "k", "u", "-", "2", "0", "2", "4", "0", "3", "0", "7">>,
     <<"g", "p", "t", "-", "5", "-", "c", "o", "d", "e", "x">>,
     <<"g", "p", "t", "-", "5">>}

RECURSIVE Spelled(_)
Spelled(n) ==
    IF n = 0 THEN {<<>>}
    ELSE Spelled(n - 1) \cup {p \o q : p \in Parts, q \in Spelled(n - 1)}

\* The spellings of every identifier and keyword the model meets.
Spellings == Spelled(MaxParts) \cup KnownSpellings

Chars(s) == CHOOSE chars \in Spellings : Text(chars) = s

(***************************************************************************)
(* format_model_name: the exact table, then the family keywords in order,  *)
(* then the raw identifier.                                                 *)
(***************************************************************************)
\* str::contains: keyword occurs in model_name at some offset.
Contains(model_name, keyword) ==
    LET name == Chars(model_name)
        word == Chars(keyword)
    IN  \E at \in 0..(Len(name) - Len(word)) :
          SubSeq(name, at + 1, at + Len(word)) = word

\* Lines 122-146 with the sonnet test moved before the opus test.
FormatModelNameSonnetFirst(model_name) ==
    CASE model_name = "claude-opus-4-20250514" -> "Opus 4"
      [] model_name = "claude-sonnet-4-20250514" -> "Sonnet 4"
      [] model_name = "claude-3-5-sonnet-20241022" -> "Sonnet 3.5"
      [] model_name = "claude-3-haiku-20240307" -> "Haiku"
      [] model_name = "gpt-5-codex" -> "GPT-5 Codex"
      [] model_name = "gpt-5" -> "GPT-5"
      [] OTHER ->
           IF Contains(model_name, "sonnet") THEN "Sonnet"
           ELSE IF Contains(model_name, "opus") THEN "Opus"
           ELSE IF Contains(model_name, "haiku") THEN "Haiku"
           ELSE IF Contains(model_name, "gpt-5-codex") THEN "GPT-5 Codex"
           ELSE IF model_name = "gpt-5" THEN "GPT-5"
           ELSE model_name

format_model_name(model_name) ==
    CASE model_name = "claude-opus-4-20250514" -> "Opus 4"
      [] model_name = "claude-sonnet-4-20250514" -> "Sonnet 4"
      [] model_name = "claude-3-5-sonnet-20241022" -> "Sonnet 3.5"
      [] model_name = "claude-3-haiku-20240307" -> "Haiku"
      [] model_name = "gpt-5-codex" -> "GPT-5 Codex"
      [] model_name = "gpt-5" -> "GPT-5"
      [] OTHER ->
           IF Contains(model_name, "opus") THEN "Opus"
           ELSE IF Contains(model_name, "sonnet") THEN "Sonnet"
           ELSE IF Contains(model_name, "haiku") THEN "Haiku"
           ELSE IF Contains(model_name, "gpt-5-codex") THEN "GPT-5 Codex"
           ELSE IF model_name = "gpt-5" THEN "GPT-5"
           ELSE model_name

(***************************************************************************)
(* The CLI output the tasks of the program can meet.                        *)
(***************************************************************************)
DayA == DailyEntry("Nov 02, 2026", 100, 20, 50, 12, {"gpt-5", "claude-3-haiku-20240307"})
DayB == DailyEntry("Nov 03, 2026", 7, 0, 3, 1, {"gpt-5-codex"})

BlockActive ==
    BlockData("b-active", "2026-11-03T10:00:00Z", "2026-11-03T15:00:00Z", TRUE,
              TokenCounts(10, 5, 1, 2), 3, <<"gpt-5">>)
BlockIdle ==
    BlockData("b-idle", "2026-11-02T10:00:00Z", "2026-11-02T15:00:00Z", FALSE,
              TokenCounts(4, 4, 0, 0), 9, <<"gpt-5-codex">>)

DailyOutput == Stdout("object", Some(<<DayA, DayB>>), None, None, None, <<>>)
NoSessionsOutput == Stdout("object", None, Some(<<>>), None, None, <<>>)

\* What the tasks' invocations can write to stdout on exit status 0.
CliOutputs == {DailyOutput, NoSessionsOutput, Garbage}

\* Command::output().await: the spawn fails, or the process exits with a
\* status and its stdout.
SpawnError == [kind |-> "spawn_error", stdout |-> Garbage]
Exited(success, stdout) ==
    [kind |-> IF success THEN "success" ELSE "exit_failure", stdout |-> stdout]

Outcomes == {SpawnError, Exited(FALSE, Garbage)} \cup {Exited(TRUE, s) : s \in CliOutputs}

\* Lines 178-241: the match on one invocation's output; None is `continue`.
AttemptResult(outcome, today) ==
    IF outcome.kind = "success" THEN ParseResponse(outcome.stdout, today) ELSE None

(***************************************************************************)
(* Tasks: the startup task and the periodic task spawned by setup (lines   *)
(* 506 and 523), and the tasks the "refresh" menu event spawns (line 566). *)
(***************************************************************************)
Startup == "startup"
Periodic == "periodic"
Manual == {"click" \o ToString(i) : i \in 1..MaxManual}
Tasks == {Startup, Periodic} \cup Manual

VARIABLES
    IS_REFRESHING,  \* static IS_REFRESHING: AtomicBool
    SESSION_CACHE,  \* the SessionData inside static SESSION_CACHE
    cache_lock,     \* the Mutex of SESSION_CACHE: "free" or the holding task
    tray,           \* the tray icon "main": built, managed, its title and menu
    pc,             \* each task's position
    loc,            \* each task's local variables
    probe,          \* a stdout text, a date and what ParseResponse made of them
    log,            \* history: the statements each task's latest refresh has run
    overlapped,     \* history: another refresh ran during the task's refresh
    fetch,          \* one run of fetch_session_data on given invocation outcomes
    agg,            \* one run of the Aggregator on a sequence of buckets
    tick,           \* history: what the periodic task's latest tick came to
    debug           \* the task the "debug" menu event spawns: position, progress

vars == <<IS_REFRESHING, SESSION_CACHE, cache_lock, tray, pc, loc, probe, log,
          overlapped, fetch, agg, tick, debug>>

TheInstant == "instant"

SessionData(block, updated, available) ==
    [active_block |-> block, last_updated |-> updated,
     ccusage_available |-> available]

\* title_set records whether line 358 (set_title) ran in the current refresh.
Locals(attempt, block, available, title, title_set, menu) ==
    [attempt |-> attempt, active_block |-> block,
     ccusage_available |-> available, title |-> title,
     title_set |-> title_set, menu |-> menu]

NoLocals == Locals(0, None, FALSE, "", FALSE, None)

NoProbe == [stdout |-> Garbage, today |-> "Nov 03, 2026", result |-> None, done |-> FALSE]

\* The value of fetch and of agg while no such run is being examined.
NoFetch == [outcomes |-> <<>>, attempt |-> 0, invoked |-> <<>>, result |-> None]

NoAgg == [buckets |-> <<>>, next |-> 0, out |-> <<>>]

\* No debug-info task is running.
NoDebug == [pc |-> "idle", tested |-> 0]

RefreshPcs == {"r_set", "r_fetch", "r_lock", "r_write", "r_set_title",
               "r_menu", "r_set_menu", "r_clear"}

InRefresh(t) == pc[t] \in RefreshPcs

InFlight(t) == pc[t] = "r_fetch"

Init ==
    /\ IS_REFRESHING = FALSE
    /\ SESSION_CACHE = SessionData(None, None, FALSE)
    /\ cache_lock = "free"
    /\ tray = [built |-> FALSE, managed |-> FALSE, title |-> "", menu |-> None]
    /\ pc = [t \in Tasks |->
               IF t = Startup THEN "s_start"
               ELSE IF t = Periodic THEN "p_tick" ELSE "idle"]
    /\ loc = [t \in Tasks |-> NoLocals]
    /\ probe = NoProbe
    /\ log = [t \in Tasks |-> <<>>]
    /\ overlapped = [t \in Tasks |-> FALSE]
    /\ fetch = NoFetch
    /\ agg = NoAgg
    /\ tick = "none"
    /\ debug = NoDebug

(***************************************************************************)
(* Helpers of the actions.                                                  *)
(***************************************************************************)
Goto(t, p) == pc' = [pc EXCEPT ![t] = p]

Logged(t, event) == log' = [log EXCEPT ![t] = Append(@, event)]

\* Line 342-346: the tray title of a fetched block.
TitleOf(active_block) ==
    IF active_block # None THEN FormatCost(active_block[1].cost_usd) ELSE ""

\* The commit with the assignment of line 351 left out.
CommitCacheStale(cache, active_block, ccusage_available) ==
    [active_block |-> cache.active_block, last_updated |-> <<"instant">>,
     ccusage_available |-> ccusage_available]

\* The commit with the assignment of line 352 left out.
CommitCacheNoStamp(cache, active_block, ccusage_available) ==
    [active_block |-> active_block, last_updated |-> cache.last_updated,
     ccusage_available |-> ccusage_available]

\* A commit that stamps the cache only when the fetch succeeded.
CommitCacheClearOnFail(cache, active_block, ccusage_available) ==
    [active_block |-> active_block,
     last_updated |-> IF ccusage_available THEN <<"instant">> ELSE <<>>,
     ccusage_available |-> ccusage_available]

\* The commit with the assignment of line 353 left out.
CommitCacheKeepFlag(cache, active_block, ccusage_available) ==
    [active_block |-> active_block, last_updated |-> <<"instant">>,
     ccusage_available |-> cache.ccusage_available]

\* Lines 350-353: the three assignments made under one lock guard.
CommitCache(cache, active_block, ccusage_available) ==
    SessionData(active_block, Some(TheInstant), ccusage_available)

\* The periodic check without its condition on the cache.
ShouldRefreshAlways(cache) == TRUE

\* Line 514: cache.last_updated.is_some()
ShouldRefresh(cache) == cache.last_updated # None

\* A loop that passes over every other strategy.
NextAttemptSkip(attempt) == attempt + 2

\* A loop that starts over after the last strategy instead of giving up.
NextAttemptWrap(attempt) == IF attempt >= 5 THEN 1 ELSE attempt + 1

\* Line 172: the loop moves on to the next strategy after a `continue`.
NextAttempt(attempt) == attempt + 1

\* A refresh that clears the flag as soon as the fetch returns.
AfterFetchEarlyClear == "r_clear"

\* Line 339 to line 350: after the fetch returns, the cache is locked.
AfterFetch == "r_lock"

\* A snapshot that takes the availability flag for the sign of an attempt.
SnapshotAvailableOnly(cache) ==
    [active_block |-> cache.active_block,
     has_attempted_fetch |-> cache.ccusage_available,
     ccusage_available |-> cache.ccusage_available]

\* Lines 381-384: what build_menu clones out of the cache under the lock.
Snapshot(cache) ==
    [active_block |-> cache.active_block,
     has_attempted_fetch |-> cache.last_updated # None,
     ccusage_available |-> cache.ccusage_available]

MenuItem(id, label) == [id |-> id, label |-> label]

ModelItems(models) ==
    [i \in 1..Len(models) |->
        MenuItem("model_" \o models[i], format_model_name(models[i]))]

\* Lines 372-490: the menu built from a snapshot.  The label of
\* session_tokens (a division of f64 values) and the clock-time labels are
\* carried as the item ids only.
MenuOf(snap) ==
    <<MenuItem("ccusage_header", "CCUsage"), MenuItem("session_title", "Today")>>
    \o (IF snap.active_block # None THEN
          LET block == snap.active_block[1] IN
          <<MenuItem("session_cost", "Cost: " \o FormatCost(block.cost_usd)),
            MenuItem("session_tokens", "Tokens")>>
          \o (IF block.start_time # "" THEN <<MenuItem("session_start", "Started")>> ELSE <<>>)
          \o (IF block.end_time # "" THEN <<MenuItem("session_end", "Expires")>> ELSE <<>>)
          \o (IF block.models # <<>>
                THEN <<MenuItem("models_header", "Models used")>> \o ModelItems(block.models)
                ELSE <<>>)
        ELSE IF snap.has_attempted_fetch THEN
          <<MenuItem("no_session", "No usage today")>>
          \o (IF ~snap.ccusage_available
                THEN <<MenuItem("error_msg", "@ccusage/codex may not be installed"),
                       MenuItem("install_msg", "Install: npm i -g @ccusage/codex")>>
                ELSE <<>>)
        ELSE <<MenuItem("loading", "Loading...")>>)
    \o <<MenuItem("refresh", "Refresh"), MenuItem("debug", "Debug Info"),
         MenuItem("quit", "Quit")>>

\* A task calls refresh_session_data (lines 517, 525, 568).
EnterRefresh(t) ==
    /\ Goto(t, "r_set")
    /\ log' = [log EXCEPT ![t] = <<>>]
    /\ overlapped' = [u \in Tasks |->
          IF u = t THEN \E v \in Tasks \ {t} : InRefresh(v)
          ELSE IF InRefresh(u) THEN TRUE ELSE overlapped[u]]

\* Where a task goes on when refresh_session_data returns.
AfterRefresh(t) == IF t = Periodic THEN "p_tick" ELSE "c_menu"

(***************************************************************************)
(* refresh_session_data (lines 334-370), one action per statement.          *)
(***************************************************************************)
\* Line 336, as it would be with the cache guard taken before the fetch.
RefreshSetFlagLocked(t) ==
    /\ pc[t] = "r_set"
    /\ cache_lock = "free"
    /\ cache_lock' = t
    /\ IS_REFRESHING' = TRUE
    /\ Goto(t, "r_fetch")
    /\ loc' = [loc EXCEPT ![t] = Locals(1, None, FALSE, "", FALSE, None)]
    /\ Logged(t, "flag_set")
    /\ UNCHANGED <<SESSION_CACHE, tray, probe, overlapped, fetch, agg, tick,
                   debug>>

\* Line 336: IS_REFRESHING.store(true); the first strategy is then invoked.
RefreshSetFlag(t) ==
    /\ pc[t] = "r_set"
    /\ IS_REFRESHING' = TRUE
    /\ Goto(t, "r_fetch")
    /\ loc' = [loc EXCEPT ![t] = Locals(1, None, FALSE, "", FALSE, None)]
    /\ Logged(t, "flag_set")
    /\ UNCHANGED <<SESSION_CACHE, cache_lock, tray, probe, overlapped, fetch,
                   agg, tick, debug>>

\* fetch_session_data returns (block, available) to line 339; lines 342-346
\* compute the title.
FetchReturn(t, result) ==
    /\ loc' = [loc EXCEPT ![t] =
                 Locals(0, result.active_block, result.ccusage_available,
                        TitleOf(result.active_block), FALSE, None)]
    /\ Goto(t, AfterFetch)
    /\ Logged(t, "fetch")

\* Lines 172-245 as they would be if a strategy's match were stored in the
\* cache at once, before fetch_session_data returns.
CommandOutputEager(t) ==
    /\ pc[t] = "r_fetch"
    /\ \E parsed \in {AttemptResult(outcome, RunDate) : outcome \in Outcomes} :
         /\ IF parsed # None THEN FetchReturn(t, parsed[1])
            ELSE IF NextAttempt(loc[t].attempt) <= NumStrategies
              THEN /\ loc' = [loc EXCEPT ![t].attempt = NextAttempt(@)]
                   /\ UNCHANGED <<pc, log>>
            ELSE FetchReturn(t, FetchResult(None, FALSE))
         /\ SESSION_CACHE' =
              (IF parsed # None
                 THEN CommitCache(SESSION_CACHE, parsed[1].active_block,
                                  parsed[1].ccusage_available)
                 ELSE SESSION_CACHE)
    /\ UNCHANGED <<IS_REFRESHING, cache_lock, tray, probe, overlapped, fetch,
                   agg, tick, debug>>

\* Lines 172-245: the invocation of strategy loc[t].attempt completes, with
\* any of the outcomes, and its output is matched.
CommandOutput(t) ==
    /\ pc[t] = "r_fetch"
    /\ \E parsed \in {AttemptResult(outcome, RunDate) : outcome \in Outcomes} :
         IF parsed # None THEN FetchReturn(t, parsed[1])
         ELSE IF NextAttempt(loc[t].attempt) <= NumStrategies
           THEN /\ loc' = [loc EXCEPT ![t].attempt = NextAttempt(@)]
                /\ UNCHANGED <<pc, log>>
         ELSE FetchReturn(t, FetchResult(None, FALSE))
    /\ UNCHANGED <<IS_REFRESHING, SESSION_CACHE, cache_lock, tray, probe,
                   overlapped, fetch, agg, tick, debug>>

\* Line 350: SESSION_CACHE.lock()
RefreshLock(t) ==
    /\ pc[t] = "r_lock"
    /\ cache_lock = "free"
    /\ cache_lock' = t
    /\ Goto(t, "r_write")
    /\ UNCHANGED <<IS_REFRESHING, SESSION_CACHE, tray, loc, probe, log,
                   overlapped, fetch, agg, tick, debug>>

\* Lines 351-354: the cache is replaced and the guard dropped.
RefreshWrite(t) ==
    /\ pc[t] = "r_write"
    /\ cache_lock = t
    /\ SESSION_CACHE' = CommitCache(SESSION_CACHE, loc[t].active_block,
                                    loc[t].ccusage_available)
    /\ cache_lock' = "free"
    /\ Goto(t, "r_set_title")
    /\ Logged(t, "cache_write")
    /\ UNCHANGED <<IS_REFRESHING, tray, loc, probe, overlapped, fetch, agg,
                   tick, debug>>

\* Lines 357-359: the title is set if the tray "main" exists.
RefreshSetTitle(t) ==
    /\ pc[t] = "r_set_title"
    /\ IF tray.built
         THEN tray' = [tray EXCEPT !.title = loc[t].title]
         ELSE UNCHANGED tray
    /\ loc' = [loc EXCEPT ![t].title_set = tray.built]
    /\ Goto(t, "r_menu")
    /\ Logged(t, "title")
    /\ UNCHANGED <<IS_REFRESHING, SESSION_CACHE, cache_lock, probe, overlapped,
                   fetch, agg, tick, debug>>

\* Lines 363-366: the menu is set if the tray is in the app state; new_menu
\* goes out of scope.
RefreshSetMenu(t) ==
    /\ pc[t] = "r_set_menu"
    /\ IF tray.managed
         THEN tray' = [tray EXCEPT !.menu = loc[t].menu]
         ELSE UNCHANGED tray
    /\ loc' = [loc EXCEPT ![t].menu = None]
    /\ Goto(t, "r_clear")
    /\ UNCHANGED <<IS_REFRESHING, SESSION_CACHE, cache_lock, probe, log,
                   overlapped, fetch, agg, tick, debug>>

\* Line 369: IS_REFRESHING.store(false); the function returns.
RefreshClear(t) ==
    /\ pc[t] = "r_clear"
    /\ IS_REFRESHING' = FALSE
    /\ Goto(t, AfterRefresh(t))
    /\ loc' = [loc EXCEPT ![t] = NoLocals]
    /\ Logged(t, "flag_clear")
    /\ overlapped' = [overlapped EXCEPT ![t] = FALSE]
    /\ tick' = (IF t = Periodic THEN "none" ELSE tick)
    /\ UNCHANGED <<SESSION_CACHE, cache_lock, tray, probe, fetch, agg, debug>>

(***************************************************************************)
(* build_menu (lines 372-490), called by refresh_session_data (line 362),  *)
(* by the startup task (line 527) and by a click task (line 571).  Any     *)
(* item's build can fail, before or after the cache is read.               *)
(***************************************************************************)
\* build_menu returns menu (None: Err) to its caller.
MenuReturn(t, menu) ==
    IF InRefresh(t) THEN
        /\ loc' = [loc EXCEPT ![t].menu = menu]
        /\ Goto(t, IF menu # None THEN "r_set_menu" ELSE "r_clear")
        /\ Logged(t, "menu")
    ELSE
        /\ loc' = [loc EXCEPT ![t].menu = menu]
        /\ Goto(t, IF t = Startup
                     THEN (IF menu # None THEN "s_title" ELSE "done")
                     ELSE (IF menu # None THEN "m_set_menu" ELSE "idle"))
        /\ UNCHANGED log

\* Lines 373-489: the header item is built; then, under one guard of
\* SESSION_CACHE, the snapshot is cloned; the guard is dropped and the other
\* items are built.
BuildMenu(t) ==
    /\ pc[t] \in {"r_menu", "c_menu"}
    /\ \/ MenuReturn(t, None)
       \/ /\ cache_lock = "free"
          /\ \E built \in BOOLEAN :
               MenuReturn(t, IF built THEN Some(MenuOf(Snapshot(SESSION_CACHE)))
                             ELSE None)
    /\ UNCHANGED <<IS_REFRESHING, SESSION_CACHE, cache_lock, tray, probe,
                   overlapped, fetch, agg, tick, debug>>

(***************************************************************************)
(* The periodic task (lines 506-521).                                       *)
(***************************************************************************)
\* Line 509: interval.tick().await completes.
PeriodicTick ==
    /\ pc[Periodic] = "p_tick"
    /\ Goto(Periodic, "p_load")
    /\ tick' = "none"
    /\ UNCHANGED <<IS_REFRESHING, SESSION_CACHE, cache_lock, tray, loc, probe,
                   log, overlapped, fetch, agg, debug>>

\* Line 511 without its test: the tick goes on to the cache check whatever
\* the flag says.
PeriodicLoadIgnoresFlag ==
    /\ pc[Periodic] = "p_load"
    /\ Goto(Periodic, "p_check")
    /\ UNCHANGED <<IS_REFRESHING, SESSION_CACHE, cache_lock, tray, loc, probe,
                   log, overlapped, fetch, agg, tick, debug>>

\* Line 511: if !IS_REFRESHING.load()
PeriodicLoad ==
    /\ pc[Periodic] = "p_load"
    /\ Goto(Periodic, IF IS_REFRESHING THEN "p_tick" ELSE "p_check")
    /\ tick' = (IF IS_REFRESHING THEN "busy" ELSE tick)
    /\ UNCHANGED <<IS_REFRESHING, SESSION_CACHE, cache_lock, tray, loc, probe,
                   log, overlapped, fetch, agg, debug>>

\* Lines 512-518: under one guard of SESSION_CACHE should_refresh is read;
\* the refresh is called or not.
PeriodicCheck ==
    /\ pc[Periodic] = "p_check"
    /\ cache_lock = "free"
    /\ IF ShouldRefresh(SESSION_CACHE)
         THEN EnterRefresh(Periodic)
         ELSE Goto(Periodic, "p_tick") /\ UNCHANGED <<log, overlapped>>
    /\ tick' = (IF ShouldRefresh(SESSION_CACHE) THEN "refresh" ELSE "unset")
    /\ UNCHANGED <<IS_REFRESHING, SESSION_CACHE, cache_lock, tray, loc, probe,
                   fetch, agg, debug>>

(***************************************************************************)
(* The startup task (lines 523-612).                                        *)
(***************************************************************************)
\* Line 525
StartupRefresh ==
    /\ pc[Startup] = "s_start"
    /\ EnterRefresh(Startup)
    /\ UNCHANGED <<IS_REFRESHING, SESSION_CACHE, cache_lock, tray, loc, probe,
                   fetch, agg, tick, debug>>

\* Lines 530-534 and 543: under one guard of SESSION_CACHE initial_title is
\* read, None becoming the empty title.
StartupInitialTitle ==
    /\ pc[Startup] = "s_title"
    /\ cache_lock = "free"
    /\ loc' = [loc EXCEPT ![Startup].title = TitleOf(SESSION_CACHE.active_block)]
    /\ Goto(Startup, "s_build")
    /\ UNCHANGED <<IS_REFRESHING, SESSION_CACHE, cache_lock, tray, probe, log,
                   overlapped, fetch, agg, tick, debug>>

\* Lines 536-603: the tray "main" is built with the title, the menu and the
\* menu event handler.
StartupBuildTray ==
    /\ pc[Startup] = "s_build"
    /\ tray' = [built |-> TRUE, managed |-> FALSE, title |-> loc[Startup].title,
                menu |-> loc[Startup].menu]
    /\ Goto(Startup, "s_manage")
    /\ UNCHANGED <<IS_REFRESHING, SESSION_CACHE, cache_lock, loc, probe, log,
                   overlapped, fetch, agg, tick, debug>>

\* Line 606: app_handle.manage(Arc::new(tray))
StartupManage ==
    /\ pc[Startup] = "s_manage"
    /\ tray' = [tray EXCEPT !.managed = TRUE]
    /\ Goto(Startup, "done")
    /\ loc' = [loc EXCEPT ![Startup] = NoLocals]
    /\ UNCHANGED <<IS_REFRESHING, SESSION_CACHE, cache_lock, probe, log,
                   overlapped, fetch, agg, tick, debug>>

(***************************************************************************)
(* The "refresh" menu event (lines 564-577).                                *)
(***************************************************************************)
\* Lines 564-568: a click on "Refresh" spawns a task that calls the refresh.
Click(t) ==
    /\ t \in Manual
    /\ pc[t] = "idle"
    /\ tray.built
    /\ EnterRefresh(t)
    /\ UNCHANGED <<IS_REFRESHING, SESSION_CACHE, cache_lock, tray, loc, probe,
                   fetch, agg, tick, debug>>

\* Lines 572-574: the rebuilt menu is set and the task ends.
ClickSetMenu(t) ==
    /\ t \in Manual
    /\ pc[t] = "m_set_menu"
    /\ IF tray.managed
         THEN tray' = [tray EXCEPT !.menu = loc[t].menu]
         ELSE UNCHANGED tray
    /\ Goto(t, "idle")
    /\ loc' = [loc EXCEPT ![t] = NoLocals]
    /\ UNCHANGED <<IS_REFRESHING, SESSION_CACHE, cache_lock, probe, log,
                   overlapped, fetch, agg, tick, debug>>

(***************************************************************************)
(* The "debug" menu event (lines 578-598) and get_debug_info (250-332).     *)
(* The text collected is carried as the number of commands tested: each     *)
(* command adds its lines whatever its outcome (lines 287-301, 313-329).    *)
(***************************************************************************)
\* Line 267-274: commands_to_test has six entries.
NumDebugCommands == 6

\* Lines 578-580 and 251-264: a click on "Debug Info" spawns a task that
\* calls get_debug_info; PATH is read and the headings are pushed.
DebugClick ==
    /\ debug.pc = "idle"
    /\ tray.built
    /\ debug' = [pc |-> "d_test", tested |-> 0]
    /\ UNCHANGED <<IS_REFRESHING, SESSION_CACHE, cache_lock, tray, pc, loc,
                   probe, log, overlapped, fetch, agg, tick>>

\* Lines 279-302: the next command of commands_to_test completes, with any
\* outcome, and its line is pushed; after the last one the loop ends.
DebugTestCommand ==
    /\ debug.pc = "d_test"
    /\ debug' = [pc |-> IF debug.tested + 1 = NumDebugCommands
                          THEN "d_codex" ELSE "d_test",
                 tested |-> debug.tested + 1]
    /\ UNCHANGED <<IS_REFRESHING, SESSION_CACHE, cache_lock, tray, pc, loc,
                   probe, log, overlapped, fetch, agg, tick>>

\* Lines 304-331: the @ccusage/codex version command completes, with any
\* outcome; get_debug_info returns the text.
DebugTestCodex ==
    /\ debug.pc = "d_codex"
    /\ debug' = [debug EXCEPT !.pc = "d_show"]
    /\ UNCHANGED <<IS_REFRESHING, SESSION_CACHE, cache_lock, tray, pc, loc,
                   probe, log, overlapped, fetch, agg, tick>>

\* Lines 581-596: the text is printed and handed to a dialog; the task ends.
DebugShow ==
    /\ debug.pc = "d_show"
    /\ debug' = NoDebug
    /\ UNCHANGED <<IS_REFRESHING, SESSION_CACHE, cache_lock, tray, pc, loc,
                   probe, log, overlapped, fetch, agg, tick>>

DebugStep ==
    \/ DebugTestCommand
    \/ DebugTestCodex
    \/ DebugShow

\* One step of task t.
TaskStep(t) ==
    \/ RefreshSetFlag(t)
    \/ CommandOutput(t)
    \/ RefreshLock(t)
    \/ RefreshWrite(t)
    \/ RefreshSetTitle(t)
    \/ BuildMenu(t)
    \/ RefreshSetMenu(t)
    \/ RefreshClear(t)
    \/ ClickSetMenu(t)

StartupStep ==
    \/ StartupRefresh
    \/ StartupInitialTitle
    \/ StartupBuildTray
    \/ StartupManage

PeriodicStep ==
    \/ PeriodicLoad
    \/ PeriodicCheck

Next ==
    \/ \E t \in Tasks : TaskStep(t)
    \/ \E t \in Manual : Click(t)
    \/ StartupStep
    \/ PeriodicTick
    \/ PeriodicStep

Spec == Init /\ [][Next]_vars

\* The tasks are scheduled by the tokio runtime and every invocation of the
\* CLI terminates: a task that can take a step, or can again and again,
\* takes it.  The timer and the user are not obliged to act.
FairSpec ==
    /\ Spec
    /\ \A t \in Tasks : SF_vars(TaskStep(t))
    /\ SF_vars(StartupStep)
    /\ SF_vars(PeriodicStep)

\* The tasks of Spec together with the debug-info task.
DebugSpec == Init /\ [][Next \/ DebugClick \/ DebugStep]_vars

(***************************************************************************)
(* The parser alone: ParseResponse applied to one stdout text and date.     *)
(***************************************************************************)
BlockLate ==
    BlockData("b-late", "2026-11-03T15:00:00Z", "2026-11-03T20:00:00Z", TRUE,
              TokenCounts(1, 1, 0, 0), 5, <<>>)

\* A second entry carrying the date of DayB.
DayC == DailyEntry("Nov 03, 2026", 9, 1, 4, 5, {"gpt-5"})

DailyLists == {<<>>, <<DayA>>, <<DayB>>, <<DayA, DayB>>, <<DayB, DayA>>,
               <<DayB, DayC>>, <<DayA, DayC, DayB>>}
BlockLists == {<<>>, <<BlockIdle>>, <<BlockActive>>, <<BlockIdle, BlockActive>>,
               <<BlockLate, BlockActive>>}

Opt(S) == {None} \cup {Some(x) : x \in S}

ProbeOutputs ==
    {Stdout("object", d, s, b, o, <<>>) :
        d \in Opt(DailyLists), s \in Opt(BlockLists), b \in Opt(BlockLists),
        o \in Opt({BlockActive, BlockIdle})}
    \cup {Stdout("array", None, None, None, None, items) : items \in BlockLists}
    \cup {Garbage}

ParseInit ==
    /\ IS_REFRESHING = FALSE
    /\ SESSION_CACHE = SessionData(None, None, FALSE)
    /\ cache_lock = "free"
    /\ tray = [built |-> FALSE, managed |-> FALSE, title |-> "", menu |-> None]
    /\ pc = [t \in Tasks |->
               IF t = Startup THEN "s_start"
               ELSE IF t = Periodic THEN "p_tick" ELSE "idle"]
    /\ loc = [t \in Tasks |-> NoLocals]
    /\ \E stdout \in ProbeOutputs, today \in Dates :
         probe = [stdout |-> stdout, today |-> today, result |-> None, done |-> FALSE]
    /\ log = [t \in Tasks |-> <<>>]
    /\ overlapped = [t \in Tasks |-> FALSE]
    /\ fetch = NoFetch
    /\ agg = NoAgg
    /\ tick = "none"
    /\ debug = NoDebug

\* Lines 180-230 on the probe.
ApplyParse ==
    /\ ~probe.done
    /\ probe' = [probe EXCEPT !.result = ParseResponse(probe.stdout, probe.today),
                              !.done = TRUE]
    /\ UNCHANGED <<IS_REFRESHING, SESSION_CACHE, cache_lock, tray, pc, loc, log,
                   overlapped, fetch, agg, tick, debug>>

ParseSpec == ParseInit /\ [][ApplyParse]_vars

(***************************************************************************)
(* fetch_session_data alone (lines 148-246): the outcome each strategy's   *)
(* invocation would have is fixed beforehand, and the loop runs over them. *)
(***************************************************************************)
\* A process may write a well-formed report and still exit non-zero.
FetchOutcomes == Outcomes \cup {Exited(FALSE, DailyOutput)}

FetchInit ==
    /\ IS_REFRESHING = FALSE
    /\ SESSION_CACHE = SessionData(None, None, FALSE)
    /\ cache_lock = "free"
    /\ tray = [built |-> FALSE, managed |-> FALSE, title |-> "", menu |-> None]
    /\ pc = [t \in Tasks |->
               IF t = Startup THEN "s_start"
               ELSE IF t = Periodic THEN "p_tick" ELSE "idle"]
    /\ loc = [t \in Tasks |-> NoLocals]
    /\ probe = NoProbe
    /\ log = [t \in Tasks |-> <<>>]
    /\ overlapped = [t \in Tasks |-> FALSE]
    /\ \E outcomes \in [1..NumStrategies -> FetchOutcomes] :
         fetch = [outcomes |-> outcomes, attempt |-> 1, invoked |-> <<>>,
                  result |-> None]
    /\ agg = NoAgg
    /\ tick = "none"
    /\ debug = NoDebug

\* Lines 172-245: strategy fetch.attempt is invoked and its outcome matched:
\* a return with the parsed result, a `continue` to the next strategy, or,
\* the list being exhausted, the return of line 245.
Invoke ==
    /\ fetch.result = None
    /\ fetch.attempt \in 1..NumStrategies
    /\ LET parsed == AttemptResult(fetch.outcomes[fetch.attempt], RunDate) IN
       fetch' = [fetch EXCEPT
                   !.invoked = Append(@, fetch.attempt),
                   !.attempt = IF parsed = None THEN NextAttempt(@) ELSE @,
                   !.result = IF parsed # None THEN parsed
                              ELSE IF NextAttempt(fetch.attempt) <= NumStrategies
                                THEN None
                              ELSE Some(FetchResult(None, FALSE))]
    /\ UNCHANGED <<IS_REFRESHING, SESSION_CACHE, cache_lock, tray, pc, loc,
                   probe, log, overlapped, agg, tick, debug>>

FetchSpec == FetchInit /\ [][Invoke]_vars

(***************************************************************************)
(* The Aggregator of spec 4.2: an ordered sequence of ReportingBuckets is  *)
(* folded into one AggregatedUsage, a mapping from model identifier to one *)
(* cumulative ModelBreakdown.  lib.rs holds no such fold (its daily entry  *)
(* arrives already aggregated by the CLI, see daily_to_block); the fold is *)
(* taken from the spec.  Costs are whole eighths of a dollar, as above.    *)
(***************************************************************************)
\* Longest sequence of buckets handed to the Aggregator.
MaxBuckets == 3

ModelBreakdown(model, i, o, cc, cr, cost) ==
    [model |-> model, input_tokens |-> i, output_tokens |-> o,
     cache_creation_tokens |-> cc, cache_read_tokens |-> cr, cost_usd |-> cost]

UsageFields == {"input_tokens", "output_tokens", "cache_creation_tokens",
                "cache_read_tokens", "cost_usd"}

\* A bucket is the set of its ModelBreakdowns, one per model it mentions.
BucketModels(bucket) == {b.model : b \in bucket}

BreakdownOf(bucket, m) == CHOOSE b \in bucket : b.model = m

AddBreakdown(x, y) ==
    ModelBreakdown(x.model, x.input_tokens + y.input_tokens,
                   x.output_tokens + y.output_tokens,
                   x.cache_creation_tokens + y.cache_creation_tokens,
                   x.cache_read_tokens + y.cache_read_tokens,
                   x.cost_usd + y.cost_usd)

\* A fold step in which a later bucket's breakdown replaces the sum so far.
MergeBucketOverwrite(acc, bucket) ==
    [m \in DOMAIN acc \cup BucketModels(bucket) |->
        IF m \in BucketModels(bucket) THEN BreakdownOf(bucket, m) ELSE acc[m]]

\* One fold step: the bucket's breakdowns are added to the sums so far.
MergeBucket(acc, bucket) ==
    [m \in DOMAIN acc \cup BucketModels(bucket) |->
        IF m \notin BucketModels(bucket) THEN acc[m]
        ELSE IF m \notin DOMAIN acc THEN BreakdownOf(bucket, m)
        ELSE AddBreakdown(acc[m], BreakdownOf(bucket, m))]

BucketWeekday == {ModelBreakdown("gpt-5", 100, 50, 0, 0, 12)}
BucketMixed ==
    {ModelBreakdown("gpt-5", 7, 3, 1, 2, 1),
     ModelBreakdown("claude-3-haiku-20240307", 20, 10, 0, 4, 2)}
BucketHaiku == {ModelBreakdown("claude-3-haiku-20240307", 5, 5, 2, 0, 3)}
BucketBare == {}

BucketSet == {BucketWeekday, BucketMixed, BucketHaiku, BucketBare}

BucketSeqs == UNION {[1..n -> BucketSet] : n \in 1..MaxBuckets}

AggInit ==
    /\ IS_REFRESHING = FALSE
    /\ SESSION_CACHE = SessionData(None, None, FALSE)
    /\ cache_lock = "free"
    /\ tray = [built |-> FALSE, managed |-> FALSE, title |-> "", menu |-> None]
    /\ pc = [t \in Tasks |->
               IF t = Startup THEN "s_start"
               ELSE IF t = Periodic THEN "p_tick" ELSE "idle"]
    /\ loc = [t \in Tasks |-> NoLocals]
    /\ probe = NoProbe
    /\ log = [t \in Tasks |-> <<>>]
    /\ overlapped = [t \in Tasks |-> FALSE]
    /\ fetch = NoFetch
    /\ \E buckets \in BucketSeqs : agg = [buckets |-> buckets, next |-> 1, out |-> <<>>]
    /\ tick = "none"
    /\ debug = NoDebug

\* The next bucket of the sequence is folded in.
AggFold ==
    /\ agg.next <= Len(agg.buckets)
    /\ agg' = [agg EXCEPT !.out = MergeBucket(agg.out, agg.buckets[agg.next]),
                          !.next = @ + 1]
    /\ UNCHANGED <<IS_REFRESHING, SESSION_CACHE, cache_lock, tray, pc, loc,
                   probe, log, overlapped, fetch, tick, debug>>

AggSpec == AggInit /\ [][AggFold]_vars

(***************************************************************************)
(* The naming of models alone: one response is parsed and stored as a      *)
(* refresh stores it, and the menu is built from the cache.                 *)
(***************************************************************************)
\* A blocks response whose active block lists one model, for every spelling;
\* a daily response whose entry for the run date has models among ModelIds.
FormatOutputs ==
    {Stdout("object", None, None,
            Some(<<[BlockActive EXCEPT !.models = <<Text(chars)>>]>>), None, <<>>) :
        chars \in Spellings}
    \cup {Stdout("object", Some(<<DailyEntry(RunDate, 8, 2, 4, 3, models)>>),
                 None, None, None, <<>>) :
            models \in SUBSET {ModelIds[i] : i \in 1..Len(ModelIds)}}

FormatInit ==
    /\ IS_REFRESHING = FALSE
    /\ SESSION_CACHE = SessionData(None, None, FALSE)
    /\ cache_lock = "free"
    /\ tray = [built |-> FALSE, managed |-> FALSE, title |-> "", menu |-> None]
    /\ pc = [t \in Tasks |->
               IF t = Startup THEN "s_start"
               ELSE IF t = Periodic THEN "p_tick" ELSE "idle"]
    /\ loc = [t \in Tasks |-> NoLocals]
    /\ \E stdout \in FormatOutputs :
         probe = [stdout |-> stdout, today |-> RunDate, result |-> None, done |-> FALSE]
    /\ log = [t \in Tasks |-> <<>>]
    /\ overlapped = [t \in Tasks |-> FALSE]
    /\ fetch = NoFetch
    /\ agg = NoAgg
    /\ tick = "none"
    /\ debug = NoDebug

\* Lines 180-230 and 350-354: the response is parsed and the result stored.
FormatStore ==
    /\ ~probe.done
    /\ LET parsed == ParseResponse(probe.stdout, probe.today)
       IN  /\ parsed # None
           /\ probe' = [probe EXCEPT !.result = parsed, !.done = TRUE]
           /\ SESSION_CACHE' = CommitCache(SESSION_CACHE, parsed[1].active_block,
                                           parsed[1].ccusage_available)
    /\ UNCHANGED <<IS_REFRESHING, cache_lock, tray, pc, loc, log, overlapped,
                   fetch, agg, tick, debug>>

\* Lines 372-490: the menu is built from the cache.
FormatBuildMenu ==
    /\ probe.done
    /\ tray.menu = None
    /\ tray' = [tray EXCEPT !.menu = Some(MenuOf(Snapshot(SESSION_CACHE)))]
    /\ UNCHANGED <<IS_REFRESHING, SESSION_CACHE, cache_lock, pc, loc, probe,
                   log, overlapped, fetch, agg, tick, debug>>

FormatSpec == FormatInit /\ [][FormatStore \/ FormatBuildMenu]_vars

(***************************************************************************)
(* Mutants of the operators above, as named by the checks below, are       *)
(* defined next to the operators they vary.  The properties follow.        *)
(***************************************************************************)

\* C1: single-flight -- at most one execution of fetch_session_data is in
\* flight at any time, whatever the interleaving of the startup refresh, the
\* timer ticks and the clicks on "Refresh".
C1_SingleFlight == Cardinality({t \in Tasks : InFlight(t)}) <= 1

\* C2: a refresh whose fetch failed leaves the cached block as it was: the
\* step that commits a failed fetch, in a refresh no other refresh has
\* overlapped, does not change active_block.
C2_FailureKeepsBlock ==
    [][\A t \in Tasks :
         (/\ pc[t] = "r_write" /\ pc'[t] # "r_write"
          /\ ~loc[t].ccusage_available /\ ~overlapped[t])
            => SESSION_CACHE'.active_block = SESSION_CACHE.active_block]_vars

\* C3: whenever a fetch is in flight, IS_REFRESHING is true.
C3_FlagWhileInFlight == (\E t \in Tasks : InFlight(t)) => IS_REFRESHING

\* C4 as stated: the periodic task's check lets it enter a refresh only when
\* the cache holds the result of a successful fetch.
C4_TickNeedsSuccess ==
    [][(pc[Periodic] = "p_check" /\ pc'[Periodic] = "r_set")
          => SESSION_CACHE.ccusage_available]_vars

\* C4 as amended: the periodic task enters a refresh only when some refresh
\* has committed to the cache (last_updated is set), whether or not its
\* fetch succeeded.
C4_TickNeedsCommit == pc[Periodic] = "r_set" => SESSION_CACHE.last_updated # None

\* The periodic task has entered a refresh over a cache that holds a failed
\* fetch.
C4_Witness ==
    /\ pc[Periodic] = "r_set"
    /\ SESSION_CACHE = SessionData(None, Some(TheInstant), FALSE)

\* The tray titles of the costs in the model's data, in dollars with two
\* decimals: 0/8, 1/8 (0.125), 3/8 (0.375), 5/8, 9/8 and 12/8 USD.
TwoDecimals(cost) ==
    CASE cost = 0 -> "$0.00"
      [] cost = 1 -> "$0.12"
      [] cost = 3 -> "$0.38"
      [] cost = 5 -> "$0.62"
      [] cost = 9 -> "$1.12"
      [] cost = 12 -> "$1.50"

\* C5: when a refresh whose fetch succeeded is about to clear the flag and no
\* other refresh has run during it, the cache holds exactly the fetched
\* block, ccusage_available is true, last_updated is set, the title computed
\* is the block's cost with two decimals, and it is the tray's title if the
\* refresh pushed it.
C5_SuccessCommitted ==
    \A t \in Tasks :
      (pc[t] = "r_clear" /\ ~overlapped[t] /\ loc[t].ccusage_available) =>
        /\ SESSION_CACHE.active_block = loc[t].active_block
        /\ SESSION_CACHE.ccusage_available
        /\ SESSION_CACHE.last_updated # None
        /\ loc[t].active_block # None =>
             loc[t].title = TwoDecimals(loc[t].active_block[1].cost_usd)
        /\ loc[t].title_set => tray.title = loc[t].title

C5_Witness ==
    \E t \in Tasks :
      /\ pc[t] = "r_clear" /\ ~overlapped[t] /\ loc[t].ccusage_available
      /\ loc[t].active_block # None /\ loc[t].title_set
      /\ tray.title = "$0.12"

\* C6: the SESSION_CACHE lock is never held by a task whose fetch is in
\* flight; whenever it is held, its holder is inside the write-replace
\* section of lines 350-354.
C6_NoLockAcrossFetch ==
    \A t \in Tasks :
      /\ InFlight(t) => cache_lock # t
      /\ cache_lock = t => pc[t] = "r_write"

\* A fetch is in flight while another task has built a menu from the cache.
C6_Witness ==
    \E t, u \in Tasks :
      /\ t # u /\ InFlight(t)
      /\ pc[u] \in {"r_set_menu", "m_set_menu"} /\ loc[u].menu # None

\* The statements of one refresh, in order.
RefreshOrder == <<"flag_set", "fetch", "cache_write", "title", "menu", "flag_clear">>

IsPrefix(s, full) == Len(s) <= Len(full) /\ \A i \in 1..Len(s) : s[i] = full[i]

\* C7: within one refresh the steps occur in the order flag set, fetch, cache
\* write, title and menu redraw, flag clear: what a refresh has done so far
\* is always an initial part of that sequence, so the flag is never cleared
\* before the cache write and the redraw.
C7_RefreshOrder == \A t \in Tasks : IsPrefix(log[t], RefreshOrder)

\* A refresh whose fetch failed has run all its steps.
C7_Witness ==
    \E t \in Tasks :
      /\ log[t] = RefreshOrder
      /\ SESSION_CACHE = SessionData(None, Some(TheInstant), FALSE)

\* A stdout text whose every list is empty and that carries no single block:
\* whichever schema reads it finds zero buckets.
ZeroBuckets(s) ==
    \/ /\ s.shape = "object" /\ s.self = None
       /\ {s.daily, s.sessions, s.blocks} \subseteq {None, Some(<<>>)}
       /\ {s.daily, s.sessions, s.blocks} # {None}
    \/ s.shape = "array" /\ s.items = <<>>

\* C8 as stated: a successful invocation whose output holds zero buckets
\* yields ccusage_available = true and a block that is present, for every
\* schema.
C8_ZeroBucketsPresent ==
    (probe.done /\ ZeroBuckets(probe.stdout)) =>
        /\ probe.result # None
        /\ probe.result[1].ccusage_available
        /\ probe.result[1].active_block # None

\* C8 as amended: such an output yields ccusage_available = true (a fetch
\* failure yields false); the block is present, the all-zero entry of today,
\* exactly when the output carries a daily array, and absent for an empty
\* sessions array, blocks array or bare array.
C8_ZeroBucketsAvailable ==
    (probe.done /\ ZeroBuckets(probe.stdout)) =>
        /\ probe.result # None
        /\ probe.result[1].ccusage_available
        /\ IF probe.stdout.shape = "object" /\ probe.stdout.daily # None
             THEN /\ probe.result[1].active_block # None
                  /\ probe.result[1].active_block[1].id = "daily-" \o probe.today
                  /\ probe.result[1].active_block[1].cost_usd = 0
                  /\ probe.result[1].active_block[1].token_counts = TokenCounts(0, 0, 0, 0)
                  /\ probe.result[1].active_block[1].models = <<>>
             ELSE probe.result[1].active_block = None

C8_Witness ==
    /\ probe.done /\ ZeroBuckets(probe.stdout)
    /\ probe.stdout.daily = Some(<<>>)
    /\ probe.result # None /\ probe.result[1].active_block # None

\* Whether a schema accepts a stdout text, and what its branch returns.
Matches(schema, s) ==
    CASE schema = "daily" -> s.shape = "object" /\ s.daily # None
      [] schema = "sessions" -> s.shape = "object" /\ s.sessions # None
      [] schema = "blocks" -> s.shape = "object" /\ s.blocks # None
      [] schema = "block" -> s.shape = "object" /\ s.self # None
      [] schema = "array" -> s.shape = "array"

Produces(schema, s, today) ==
    CASE schema = "daily" -> DailyResult(s.daily[1], today)
      [] schema = "sessions" -> ActiveResult(s.sessions[1])
      [] schema = "blocks" -> ActiveResult(s.blocks[1])
      [] schema = "block" -> FetchResult(s.self, TRUE)
      [] schema = "array" -> ActiveResult(s.items)

\* The result of the earliest schema of `order` that accepts s.
EarliestOf(order, s, today) ==
    LET hits == {i \in 1..Len(order) : Matches(order[i], s)}
    IN  IF hits = {} THEN None
        ELSE Some(Produces(order[CHOOSE i \in hits : \A j \in hits : i <= j], s, today))

\* C10 as stated: the result is that of the earliest accepting schema in the
\* order daily, blocks, sessions, single block, bare array.
C10_StatedOrder ==
    probe.done =>
        probe.result = EarliestOf(<<"daily", "blocks", "sessions", "block", "array">>,
                                  probe.stdout, probe.today)

\* C10 as amended: the result is that of the earliest accepting schema in the
\* order daily, sessions, blocks, single block, bare array.
C10_CodeOrder ==
    probe.done =>
        probe.result = EarliestOf(<<"daily", "sessions", "blocks", "block", "array">>,
                                  probe.stdout, probe.today)

\* An object carrying a blocks and a sessions array that select different
\* blocks has been parsed.
C10_Witness ==
    /\ probe.done
    /\ probe.stdout.shape = "object" /\ probe.stdout.daily = None
    /\ probe.stdout.sessions # None /\ probe.stdout.blocks # None
    /\ ActiveResult(probe.stdout.sessions[1]) # ActiveResult(probe.stdout.blocks[1])
    /\ probe.result = Some(ActiveResult(probe.stdout.sessions[1]))

\* A refresh is over: its last statement, the store of false, has run.
Returned(t) ==
    /\ ~InRefresh(t)
    /\ log[t] # <<>>
    /\ log[t][Len(log[t])] = "flag_clear"

\* C9: every refresh that starts runs to its flag-clearing statement,
\* whatever the outcomes of its invocations, and whenever no refresh is in
\* progress IS_REFRESHING is false.
C9_RefreshReturns ==
    /\ \A t \in Tasks : (pc[t] = "r_set") ~> Returned(t)
    /\ []((\A t \in Tasks : ~InRefresh(t)) => ~IS_REFRESHING)

\* A refresh all of whose invocations failed is over and the flag is false.
C9_Witness ==
    /\ \E t \in Tasks : Returned(t)
    /\ \A t \in Tasks : ~InRefresh(t)
    /\ ~IS_REFRESHING
    /\ SESSION_CACHE = SessionData(None, Some(TheInstant), FALSE)
(***************************************************************************)
(* Selection of today's entry and of the current block.                     *)
(***************************************************************************)
\* The probe is a parsed daily-schema response with at least one day entry.
DailyProbe ==
    /\ probe.done
    /\ probe.stdout.shape = "object" /\ probe.stdout.daily # None
    /\ Len(probe.stdout.daily[1]) >= 1

\* C11 as stated: for a daily-schema response with at least one day entry,
\* the data selected is the first entry of the daily array, whatever its
\* date.
C11_FirstEntry ==
    DailyProbe =>
        /\ probe.result # None
        /\ probe.result[1].active_block # None
        /\ probe.result[1].active_block[1].id
              = "daily-" \o probe.stdout.daily[1][1].date
        /\ probe.result[1].active_block[1].cost_usd
              = probe.stdout.daily[1][1].cost_usd

\* C11 as amended: the data selected is the first entry of the daily array
\* whose date is today's date; if no entry carries today's date, it is an
\* all-zero entry dated today.  In both cases ccusage_available is true.
C11_TodayEntry ==
    DailyProbe =>
        LET daily == probe.stdout.daily[1]
            dated == {i \in 1..Len(daily) : daily[i].date = probe.today}
        IN  /\ probe.result # None
            /\ probe.result[1].ccusage_available
            /\ probe.result[1].active_block # None
            /\ LET block == probe.result[1].active_block[1] IN
                /\ block.id = "daily-" \o probe.today
                /\ block.is_active
                /\ IF dated = {}
                     THEN /\ block.cost_usd = 0
                          /\ block.token_counts = TokenCounts(0, 0, 0, 0)
                          /\ block.models = <<>>
                     ELSE \E i \in dated :
                            /\ \A j \in dated : i <= j
                            /\ block.cost_usd = daily[i].cost_usd
                            /\ block.token_counts.input_tokens = daily[i].input_tokens
                            /\ block.token_counts.output_tokens = daily[i].output_tokens
                            /\ block.token_counts.cache_read_input_tokens
                                  = daily[i].cached_input_tokens
                            /\ {block.models[k] : k \in 1..Len(block.models)}
                                  = daily[i].models

\* A response whose first entry is not today's and which holds two entries
\* dated today has been parsed: the earlier of the two was selected.
C11_Witness ==
    /\ DailyProbe
    /\ probe.stdout.daily[1] = <<DayA, DayC, DayB>>
    /\ probe.today = DayC.date
    /\ probe.result[1].active_block[1].cost_usd = DayC.cost_usd

\* The list of blocks of a session-window response: the sessions array, the
\* blocks array or the bare array the parser reads (None: the response is
\* not of these schemas).
WindowList(s) ==
    IF s.shape = "array" THEN Some(s.items)
    ELSE IF s.shape # "object" \/ s.daily # None THEN None
    ELSE IF s.sessions # None THEN s.sessions
    ELSE s.blocks

\* The probe is a parsed session-window response with at least one block.
WindowProbe ==
    /\ probe.done
    /\ WindowList(probe.stdout) # None
    /\ Len(WindowList(probe.stdout)[1]) >= 1

\* C12 as stated: for a session-window response with at least one block,
\* the block selected as current is the first block of the response,
\* whatever its isActive value.
C12_FirstBlock ==
    WindowProbe =>
        /\ probe.result # None
        /\ probe.result[1].active_block = Some(WindowList(probe.stdout)[1][1])

\* C12 as amended: the block selected is the first block of the response
\* whose isActive is true; when no block is active, no block is selected.
\* In both cases ccusage_available is true.
C12_FirstActive ==
    WindowProbe =>
        LET list == WindowList(probe.stdout)[1]
            active == {i \in 1..Len(list) : list[i].is_active}
        IN  /\ probe.result # None
            /\ probe.result[1].ccusage_available
            /\ IF active = {} THEN probe.result[1].active_block = None
               ELSE \E i \in active :
                      /\ \A j \in active : i <= j
                      /\ probe.result[1].active_block = Some(list[i])

\* A bare array whose first block is idle, and a blocks array holding two
\* active blocks, have been parsed: the first active block was selected.
C12_Witness ==
    /\ WindowProbe
    /\ \/ /\ probe.stdout.shape = "array"
          /\ probe.stdout.items = <<BlockIdle, BlockActive>>
          /\ probe.result[1].active_block = Some(BlockActive)
       \/ /\ probe.stdout.shape = "object" /\ probe.stdout.sessions = None
          /\ probe.stdout.blocks = Some(<<BlockLate, BlockActive>>)
          /\ probe.result[1].active_block = Some(BlockLate)
(***************************************************************************)
(* Aggregation.                                                             *)
(***************************************************************************)
\* The Aggregator has folded every bucket of a non-empty sequence.
AggDone == agg.buckets # <<>> /\ agg.next > Len(agg.buckets)

\* The sum of a field of model m over those of the first n buckets that
\* mention m.
RECURSIVE SumOver(_, _, _, _)
SumOver(buckets, m, field, n) ==
    IF n = 0 THEN 0
    ELSE SumOver(buckets, m, field, n - 1)
         + (IF m \in BucketModels(buckets[n])
              THEN BreakdownOf(buckets[n], m)[field] ELSE 0)

\* C13: for every non-empty sequence of buckets, the aggregated usage holds
\* exactly the models that some bucket mentions, and for each of them every
\* field (input, output, cache-creation and cache-read tokens, cost) is the
\* sum of that field over the buckets that mention the model.
C13_AggregateSums ==
    AggDone =>
        /\ DOMAIN agg.out = UNION {BucketModels(agg.buckets[n]) : n \in 1..Len(agg.buckets)}
        /\ \A m \in DOMAIN agg.out :
             /\ agg.out[m].model = m
             /\ \A field \in UsageFields :
                  agg.out[m][field] = SumOver(agg.buckets, m, field, Len(agg.buckets))

\* Three buckets, one model in two of them and the other in one, have been
\* folded: 12/8 + 1/8 USD for the first, 2/8 USD for the second.
C13_Witness ==
    /\ AggDone
    /\ agg.buckets = <<BucketWeekday, BucketBare, BucketMixed>>
    /\ DOMAIN agg.out = {"gpt-5", "claude-3-haiku-20240307"}
    /\ agg.out["gpt-5"].cost_usd = 13
    /\ agg.out["gpt-5"].input_tokens = 107
    /\ agg.out["claude-3-haiku-20240307"].cost_usd = 2
(***************************************************************************)
(* Timer ticks that do nothing.                                             *)
(***************************************************************************)
\* The periodic task goes back to waiting for the next tick and nothing of
\* the program's state changes.
TickNoOp ==
    /\ pc'[Periodic] = "p_tick"
    /\ UNCHANGED <<IS_REFRESHING, SESSION_CACHE, cache_lock, tray, loc, log>>

\* C14: a timer tick that observes IS_REFRESHING true is a no-op: it starts
\* no fetch and leaves the cache, the flag and the tray unchanged; and a
\* tick that observes last_updated unset likewise starts no fetch.
C14_TickNoOp ==
    [][/\ (/\ pc[Periodic] = "p_load" /\ IS_REFRESHING
            /\ pc'[Periodic] # "p_load") => TickNoOp
       /\ (/\ pc[Periodic] = "p_check" /\ SESSION_CACHE.last_updated = None
            /\ pc'[Periodic] # "p_check") => TickNoOp]_vars

\* The periodic task has dropped a tick because the flag was set, while
\* another task's fetch is in flight.
C14_Witness ==
    /\ tick = "busy"
    /\ pc[Periodic] = "p_tick"
    /\ \E t \in Tasks : InFlight(t)
    /\ IS_REFRESHING
    /\ SESSION_CACHE.last_updated # None
(***************************************************************************)
(* The invocation strategies.                                               *)
(***************************************************************************)
Schemas == {"daily", "sessions", "blocks", "block", "array"}

\* An invocation failed: it did not spawn, it exited non-zero, or its output
\* matches no schema.
InvocationFailed(outcome) ==
    \/ outcome.kind = "spawn_error"
    \/ outcome.kind = "exit_failure"
    \/ outcome.kind = "success" /\ \A schema \in Schemas : ~Matches(schema, outcome.stdout)

\* C15: the strategies are invoked strictly in list order; strategy i+1 is
\* invoked only if strategy i failed (spawn error, non-zero exit, output
\* matching no schema); after the first strategy whose output parses no
\* further strategy is invoked; and the fetch returns (no block,
\* available = false) if and only if all five strategies failed.
C15_StrategyOrder ==
    LET n == Len(fetch.invoked) IN
    /\ n <= NumStrategies
    /\ \A i \in 1..n : fetch.invoked[i] = i
    /\ \A i \in 1..n : i < n => InvocationFailed(fetch.outcomes[i])
    /\ fetch.result = None =>
         (n < NumStrategies /\ (n >= 1 => InvocationFailed(fetch.outcomes[n])))
    /\ fetch.result # None =>
         /\ n >= 1
         /\ ~InvocationFailed(fetch.outcomes[n]) \/ n = NumStrategies
         /\ ~InvocationFailed(fetch.outcomes[n]) => fetch.result[1].ccusage_available
         /\ fetch.result[1] = FetchResult(None, FALSE)
              <=> \A i \in 1..NumStrategies : InvocationFailed(fetch.outcomes[i])

\* A fetch whose first strategy did not spawn and whose second exited
\* non-zero over a well-formed report has returned the third strategy's
\* result, leaving the fourth, which would have parsed too, uninvoked.
C15_Witness ==
    /\ fetch.result # None
    /\ fetch.invoked = <<1, 2, 3>>
    /\ fetch.outcomes[1] = SpawnError
    /\ fetch.outcomes[2] = Exited(FALSE, DailyOutput)
    /\ fetch.outcomes[3] = Exited(TRUE, NoSessionsOutput)
    /\ fetch.outcomes[4] = Exited(TRUE, DailyOutput)
    /\ fetch.result[1] = FetchResult(None, TRUE)
(***************************************************************************)
(* The menu's no-data states.                                               *)
(***************************************************************************)
\* The menu holds an item with this id.
HasItem(menu, id) == \E i \in 1..Len(menu) : menu[i].id = id

\* Task t's call of build_menu returns Ok in this step.
MenuBuilt(t) == loc[t].menu = None /\ loc'[t].menu # None

\* C16: every menu build_menu returns shows "Loading..." exactly when the
\* cache it was built from has last_updated unset and no block, "No usage
\* today" exactly when last_updated is set and no block is cached, and the
\* "may not be installed" hint (with its install item) exactly when, in
\* addition, ccusage_available is false; so the hint is never shown when a
\* block is cached or when the flag is true.
C16_NoDataStates ==
    [][\A t \in Tasks :
         MenuBuilt(t) =>
           LET menu == loc'[t].menu[1]
               no_block == SESSION_CACHE.active_block = None
               committed == SESSION_CACHE.last_updated # None
           IN  /\ HasItem(menu, "loading") <=> (no_block /\ ~committed)
               /\ HasItem(menu, "no_session") <=> (no_block /\ committed)
               /\ HasItem(menu, "error_msg")
                    <=> (no_block /\ committed /\ ~SESSION_CACHE.ccusage_available)
               /\ HasItem(menu, "install_msg") <=> HasItem(menu, "error_msg")
               /\ HasItem(menu, "session_cost") <=> ~no_block]_vars

\* A menu with the hint has been built from a cache holding a failed fetch,
\* and the tray shows a menu without it, built from an empty but successful
\* one.
C16_Witness ==
    /\ SESSION_CACHE = SessionData(None, Some(TheInstant), FALSE)
    /\ \E t \in Tasks :
         /\ loc[t].menu # None
         /\ HasItem(loc[t].menu[1], "no_session")
         /\ HasItem(loc[t].menu[1], "error_msg")
    /\ tray.menu # None
    /\ HasItem(tray.menu[1], "no_session")
    /\ ~HasItem(tray.menu[1], "error_msg")
(***************************************************************************)
(* Commits and reads of the cache.                                          *)
(***************************************************************************)
\* Task t's refresh commits in this step.
Commits(t) == pc[t] = "r_write" /\ pc'[t] # "r_write"

\* Task t reads the cache in this step: build_menu's snapshot, the periodic
\* task's check, or the startup task's initial title.
Reads(t) ==
    \/ pc[t] \in {"r_menu", "c_menu"} /\ loc'[t].menu # None
    \/ pc[t] \in {"p_check", "s_title"} /\ pc'[t] # pc[t]

InLog(t, event) == \E i \in 1..Len(log[t]) : log[t][i] = event

\* C17: the three cache fields are replaced together, by one refresh, under
\* one lock acquisition, and are read while no commit is under way: every
\* step that changes the cache is the commit of a task holding the lock and
\* makes the cache exactly that task's fetch result (block, a timestamp,
\* availability); every commit does so; and every read happens with the
\* lock free before and after.  So a reader's snapshot is the initial cache
\* or one refresh's triple, never a mix, whatever the interleaving.
C17_AtomicSnapshots ==
    [][/\ \A t \in Tasks :
            Commits(t) =>
              /\ cache_lock = t /\ cache_lock' = "free"
              /\ SESSION_CACHE'.active_block = loc[t].active_block
              /\ SESSION_CACHE'.last_updated # None
              /\ SESSION_CACHE'.ccusage_available = loc[t].ccusage_available
       /\ SESSION_CACHE' # SESSION_CACHE => \E t \in Tasks : Commits(t)
       /\ \A t \in Tasks :
            Reads(t) => (cache_lock = "free" /\ cache_lock' = "free"
                         /\ SESSION_CACHE' = SESSION_CACHE)]_vars

\* Two overlapping refreshes have both committed, a failed fetch last, and
\* one of them has built its menu from the cache.
C17_Witness ==
    \E t, u \in Tasks :
      /\ t # u /\ InRefresh(t) /\ InRefresh(u)
      /\ InLog(t, "cache_write") /\ InLog(u, "cache_write")
      /\ loc[t].ccusage_available /\ ~loc[u].ccusage_available
      /\ loc[t].menu # None
      /\ HasItem(loc[t].menu[1], "error_msg")
      /\ SESSION_CACHE = SessionData(None, Some(TheInstant), FALSE)
(***************************************************************************)
(* The tray title and the cache.                                            *)
(***************************************************************************)
\* C18: whenever no refresh is in progress and at least one refresh has
\* returned since the tray was created, the tray title agrees with the
\* cache: it is the two-decimal cost of the cached block, or empty when no
\* block is cached.  Title and cache change only in a refresh or before the
\* tray exists, so this is stated of every step in which a refresh returns,
\* the tray existing, and leaves no refresh in progress.
C18_TitleAgrees ==
    [][\A t \in Tasks :
         (/\ pc[t] = "r_clear" /\ ~InRefresh(t)'
          /\ tray.built
          /\ \A u \in Tasks \ {t} : ~InRefresh(u))
            => tray'.title = (IF SESSION_CACHE'.active_block # None
                               THEN TwoDecimals(SESSION_CACHE'.active_block[1].cost_usd)
                               ELSE "")]_vars
(***************************************************************************)
(* Well-formedness of the cache and monotonicity of last_updated.           *)
(***************************************************************************)
\* C19: in every reachable state a cached block implies ccusage_available,
\* and ccusage_available implies that last_updated is set; the same holds
\* of every fetch result a refresh is about to commit (a block comes with
\* available = true).
C19_CacheWellFormed ==
    /\ SESSION_CACHE.active_block # None => SESSION_CACHE.ccusage_available
    /\ SESSION_CACHE.ccusage_available => SESSION_CACHE.last_updated # None
    /\ \A t \in Tasks : loc[t].active_block # None => loc[t].ccusage_available

\* The cache holds a block, committed with available = true and a
\* timestamp, while a refresh whose fetch failed is about to commit over it.
C19_Witness ==
    /\ SESSION_CACHE.active_block # None
    /\ SESSION_CACHE.ccusage_available
    /\ SESSION_CACHE.last_updated = Some(TheInstant)
    /\ \E t \in Tasks : pc[t] = "r_write" /\ ~loc[t].ccusage_available

\* C20: last_updated is monotone: a step never unsets it once it is set;
\* from then on no menu that is built shows "Loading...", and the periodic
\* task's check always lets the tick go on to a refresh.
C20_UpdatedMonotone ==
    [][SESSION_CACHE.last_updated # None =>
         /\ SESSION_CACHE'.last_updated # None
         /\ \A t \in Tasks :
              MenuBuilt(t) => ~HasItem(loc'[t].menu[1], "loading")
         /\ (pc[Periodic] = "p_check" /\ pc'[Periodic] # "p_check")
              => pc'[Periodic] = "r_set"]_vars

\* The periodic task, let through by an earlier commit, has by itself
\* committed a failed fetch and built its menu: last_updated is still set
\* and the menu shows "No usage today", not "Loading...".
C20_Witness ==
    /\ pc[Periodic] \in {"r_set_menu", "r_clear"}
    /\ InLog(Periodic, "cache_write")
    /\ ~loc[Periodic].ccusage_available
    /\ ~overlapped[Periodic]
    /\ SESSION_CACHE = SessionData(None, Some(TheInstant), FALSE)
    /\ loc[Periodic].menu # None
    /\ HasItem(loc[Periodic].menu[1], "no_session")
    /\ ~HasItem(loc[Periodic].menu[1], "loading")
(***************************************************************************)
(* What leaves the cache alone.                                             *)
(***************************************************************************)
\* Task t takes a step of its refresh before its fetch has returned.
AwaitsFetch(t) ==
    /\ pc[t] \in {"r_set", "r_fetch"}
    /\ pc'[t] # pc[t] \/ loc'[t] # loc[t]

\* The debug-info task takes a step.
DebugActs == debug' # debug

\* C21: the cache is changed only by a refresh whose fetch has returned.  A
\* step in which a menu is built, a step of the debug-info task, and a step
\* of a refresh that has not yet got its fetch result each leave
\* active_block, last_updated and ccusage_available as they were; and the
\* task whose step does change one of them has its fetch result in hand
\* (it logged the fetch's return and is past the lock at line 350).
C21_CacheFrame ==
    [][/\ \A t \in Tasks :
            (MenuBuilt(t) \/ AwaitsFetch(t)) =>
              /\ SESSION_CACHE'.active_block = SESSION_CACHE.active_block
              /\ SESSION_CACHE'.last_updated = SESSION_CACHE.last_updated
              /\ SESSION_CACHE'.ccusage_available = SESSION_CACHE.ccusage_available
       /\ DebugActs => SESSION_CACHE' = SESSION_CACHE
       /\ (\E f \in {"active_block", "last_updated", "ccusage_available"} :
             SESSION_CACHE'[f] # SESSION_CACHE[f]) =>
            \E t \in Tasks :
              /\ pc[t] = "r_write" /\ pc'[t] = "r_set_title"
              /\ Len(log[t]) >= 2 /\ log[t][Len(log[t])] = "fetch"]_vars

\* With a block in the cache from an earlier refresh, a later refresh is on
\* its third strategy, the debug-info task has tested some commands, and a
\* menu has been built from the cache: the block is still there.
C21_Witness ==
    /\ SESSION_CACHE.active_block # None
    /\ debug.pc = "d_test" /\ debug.tested >= 2
    /\ \E t, u \in Tasks :
         /\ t # u
         /\ pc[t] = "r_fetch" /\ loc[t].attempt >= 3
         /\ loc[u].menu # None
         /\ loc[u].menu[1] = MenuOf(Snapshot(SESSION_CACHE))

(***************************************************************************)
(* Display names of models.                                                 *)
(***************************************************************************)
\* The table of exactly known identifiers and the family keywords with
\* their names, in the order they are tested.
ExactNames ==
    {<<"claude-opus-4-20250514", "Opus 4">>,
     <<"claude-sonnet-4-20250514", "Sonnet 4">>,
     <<"claude-3-5-sonnet-20241022", "Sonnet 3.5">>,
     <<"claude-3-haiku-20240307", "Haiku">>,
     <<"gpt-5-codex", "GPT-5 Codex">>,
     <<"gpt-5", "GPT-5">>}

FamilyKeywords == <<"opus", "sonnet", "haiku", "gpt-5-codex">>
FamilyNames == <<"Opus", "Sonnet", "Haiku", "GPT-5 Codex">>

\* The characters of word stand in name, in a row, from some position on.
Occurs(word, name) ==
    \E n \in 0..Len(name) : IsPrefix(word, SubSeq(name, n + 1, Len(name)))

\* The keywords, by their place in FamilyKeywords, that the identifier
\* spelled chars contains.
FamiliesIn(chars) ==
    {k \in 1..Len(FamilyKeywords) :
        \E word \in Spellings : Text(word) = FamilyKeywords[k] /\ Occurs(word, chars)}

\* label is the display name the rule gives the identifier raw.
NamedByRule(raw, label) ==
    /\ \E chars \in Spellings : Text(chars) = raw
    /\ \A chars \in Spellings :
         Text(chars) = raw =>
           IF \E e \in ExactNames : e[1] = raw
             THEN <<raw, label>> \in ExactNames
           ELSE IF FamiliesIn(chars) # {}
             THEN \E k \in FamiliesIn(chars) :
                    /\ \A j \in FamiliesIn(chars) : k <= j
                    /\ label = FamilyNames[k]
           ELSE label = raw

\* The identifiers the response lists for the block that is stored.
ResponseModels ==
    IF probe.stdout.daily # None
      THEN probe.stdout.daily[1][1].models
      ELSE LET models == probe.stdout.blocks[1][1].models
           IN  {models[i] : i \in 1..Len(models)}

\* C22: once the response is stored, the cached block's models are exactly
\* the identifiers the response listed, as written there (raw, each once,
\* not their display names); and once the menu is built, each of them has
\* the item "model_<identifier>" whose label is the table name if the
\* identifier is one of the six exactly known ones, else the name of the
\* first of the keywords opus, sonnet, haiku, gpt-5-codex it contains, else
\* the identifier itself.
C22_DisplayNames ==
    probe.done =>
      LET stored == SESSION_CACHE.active_block[1].models
      IN  /\ {stored[i] : i \in 1..Len(stored)} = ResponseModels
          /\ Len(stored) = Cardinality(ResponseModels)
          /\ tray.menu # None =>
                \A i \in 1..Len(stored) :
                  \E n \in 1..Len(tray.menu[1]) :
                    /\ tray.menu[1][n].id = "model_" \o stored[i]
                    /\ NamedByRule(stored[i], tray.menu[1][n].label)

\* The menu is built for a block whose one model, unknown to the table,
\* contains sonnet and after it opus: it is stored as written and shown
\* as "Opus".
C22_Witness ==
    /\ probe.done
    /\ tray.menu # None
    /\ SESSION_CACHE.active_block # None
    /\ SESSION_CACHE.active_block[1].models = <<"sonnetopus">>
    /\ \E n \in 1..Len(tray.menu[1]) :
         tray.menu[1][n] = MenuItem("model_sonnetopus", "Opus")

====
